---- MODULE Spec2Model ----
(***************************************************************************)
(* Simple text layout (pathfinder-classic/src/typesetter.rs): the greedy   *)
(* word-wrap of Typesetter::add_text, the sparse-to-dense glyph remap of   *)
(* GlyphStore, and the viewport query positioned_glyphs_in_rect.           *)
(*                                                                         *)
(* Numbers.  Every f32 of the source is an exact rational here: a pixel    *)
(* quantity v stands for v / FP pixels.  The fonts, point sizes, scales    *)
(* and granules below are chosen so that every product and quotient the    *)
(* code forms is exact at that resolution; f32 rounding error is not       *)
(* modelled.  Glyph identifiers and dense indices are u16.                 *)
(*                                                                         *)
(* Fonts.  The fonts below resolve every codepoint mapping and have a      *)
(* space glyph, so the unwrap() calls of add_text never panic; their       *)
(* advances are u16 and their line spacing is positive.                    *)
(***************************************************************************)
EXTENDS Integers, Sequences, FiniteSets, TLC

\* Resolution of the fixed-point stand-in for f32: v stands for v / FP.
FP == 100

\* std::u16::MAX, the "absent" sentinel of glyph_id_to_glyph_index.
U16_MAX == 65535

\* ------------------------------------------------------------------ bounds
\* add_text is not taken when it would leave more glyphs than this.
MaxGlyphs == 4

\* The same cap where the viewport query runs on the page.
MaxQueryGlyphs == 3

\* ------------------------------------------------------------------- fonts
\* The Font collaborator (units_per_em, ascender, descender, line_gap, the
\* codepoint -> glyph mapping and the advance widths), two instances.
\* FontA is the font of the worked example: every advance is 600 units.
FontA == [name |-> "A", units_per_em |-> 1000, ascender |-> 800,
          descender |-> -200, line_gap |-> 200]

FontB == [name |-> "B", units_per_em |-> 2000, ascender |-> 1500,
          descender |-> -500, line_gap |-> 0]

Fonts == {FontA, FontB}

PointSizes == {10, 20}

\* Page widths in pixels times FP: 10 px, 20 px and 100 px.
PageWidths == {10 * FP, 20 * FP, 100 * FP}

WhitespaceChars == {" ", "\n"}

\* glyph_mapping.glyph_for(ch): the font's cmap.  FontB maps "Z" to the
\* largest u16.
glyph_for(font, ch) ==
    IF font.name = "A"
    THEN CASE ch = " " -> 1 [] ch = "\n" -> 1 [] ch = "A" -> 2 [] ch = "B" -> 3
           [] ch = "C" -> 4 [] ch = "D" -> 5 [] OTHER -> 6
    ELSE CASE ch = " " -> 1 [] ch = "\n" -> 1 [] ch = "A" -> 7 [] ch = "B" -> 2
           [] ch = "C" -> 8 [] ch = "D" -> 9 [] OTHER -> U16_MAX

\* font.metrics_for_glyph(glyph_id).advance_width, in font units (a u16:
\* never negative).
advance_width(font, glyph_id) ==
    IF font.name = "A" THEN 600
    ELSE CASE glyph_id = 1 -> 500 [] glyph_id = 2 -> 1250 [] glyph_id = 7 -> 650
           [] glyph_id = U16_MAX -> 0 [] OTHER -> 1000

\* units * pixels_per_unit, with pixels_per_unit = point_size / units_per_em.
Px(units, point_size, font) == (units * point_size * FP) \div font.units_per_em

\* shaper::shape_text(font, glyph_mapping, word): one (glyph_id, advance)
\* per character, left to right.
shape_text(font, word) ==
    [i \in 1..Len(word) |->
        [glyph_id |-> glyph_for(font, word[i]),
         advance |-> advance_width(font, glyph_for(font, word[i]))]]

\* str::split_whitespace: the maximal runs of non-whitespace characters.
RECURSIVE SplitFrom(_, _, _)
SplitFrom(string, i, cur) ==
    IF i > Len(string)
    THEN IF cur = <<>> THEN <<>> ELSE <<cur>>
    ELSE IF string[i] \in WhitespaceChars
         THEN IF cur = <<>> THEN SplitFrom(string, i + 1, <<>>)
              ELSE <<cur>> \o SplitFrom(string, i + 1, <<>>)
         ELSE SplitFrom(string, i + 1, Append(cur, string[i]))

split_whitespace(string) == SplitFrom(string, 1, <<>>)

\* The texts given to add_text: the worked example "AB CD", a text with
\* leading, repeated and trailing whitespace, a one-glyph word, and a text
\* with no word.
Texts == { <<"A", "B", " ", "C", "D">>,
           <<" ", "B", " ", "\n", "A", " ">>,
           <<"Z">>,
           <<" ">> }

\* ------------------------------------------------------------------- state
VARIABLES
    glyph_positions,   \* Typesetter.glyph_positions: Seq of [x, y, glyph_id]
    page_width,        \* Typesetter.page_width
    cursor,            \* Typesetter.cursor: [x, y]
    words,             \* history: one record per word add_text has placed
    last_call,         \* history: the arguments and start of the last add_text
    glyph_store,       \* the result of the last Glyph Store construction
    store_call,        \* history: the arguments of that construction
    positioned_glyphs, \* the result of the last positioned_glyphs_in_rect
    last_query         \* history: the arguments of that query

vars == <<glyph_positions, page_width, cursor, words, last_call,
          glyph_store, store_call, positioned_glyphs, last_query>>

\* ---------------------------------------------------------------- add_text
space_advance(font, point_size) ==
    Px(advance_width(font, glyph_for(font, " ")), point_size, font)

line_spacing_NoLineGap(font, point_size) ==
    Px(font.ascender - font.descender, point_size, font)

line_spacing(font, point_size) ==
    Px(font.ascender - font.descender + font.line_gap, point_size, font)

RECURSIVE SumAdvance(_)
SumAdvance(shaped) ==
    IF shaped = <<>> THEN 0 ELSE Head(shaped).advance + SumAdvance(Tail(shaped))

total_advance(shaped, font, point_size) == Px(SumAdvance(shaped), point_size, font)

NeedsWrap_IgnoresAdvance(cursor_x, total, pw) == cursor_x > pw

\* The wrap test of add_text.
NeedsWrap(cursor_x, total, pw) == cursor_x + total > pw

WrapCursor_KeepsX(c, spacing) == [x |-> c.x, y |-> c.y + spacing]

\* The wrap: cursor.x = 0.0; cursor.y += line_spacing.
WrapCursor(c, spacing) == [x |-> 0, y |-> c.y + spacing]

PlaceGlyph_AdvanceFirst(t, g, font, point_size) ==
    LET moved == [x |-> t.cursor.x + Px(g.advance, point_size, font),
                  y |-> t.cursor.y]
    IN [t EXCEPT !.glyph_positions = Append(@, [x |-> moved.x, y |-> moved.y,
                                                glyph_id |-> g.glyph_id]),
                 !.cursor = moved]

\* The body of the inner loop of add_text: push the glyph at the cursor,
\* then advance the cursor.
PlaceGlyph(t, g, font, point_size) ==
    LET pushed == Append(t.glyph_positions,
                         [x |-> t.cursor.x, y |-> t.cursor.y,
                          glyph_id |-> g.glyph_id])
        moved == [x |-> t.cursor.x + Px(g.advance, point_size, font),
                  y |-> t.cursor.y]
    IN [t EXCEPT !.glyph_positions = pushed, !.cursor = moved]

RECURSIVE PlaceGlyphs(_, _, _, _)
PlaceGlyphs(t, shaped, font, point_size) ==
    IF shaped = <<>> THEN t
    ELSE PlaceGlyphs(PlaceGlyph(t, Head(shaped), font, point_size),
                     Tail(shaped), font, point_size)

\* One iteration of the loop over the words.
PlaceWord(t, word, font, point_size, pw) ==
    LET shaped == shape_text(font, word)
        total == total_advance(shaped, font, point_size)
        wrap == NeedsWrap(t.cursor.x, total, pw)
        t0 == IF wrap
              THEN [t EXCEPT !.cursor = WrapCursor(@, line_spacing(font, point_size))]
              ELSE t
        t1 == PlaceGlyphs(t0, shaped, font, point_size)
        t2 == [t1 EXCEPT !.cursor.x = @ + space_advance(font, point_size)]
    IN [t2 EXCEPT !.words = Append(@,
            [first |-> Len(t.glyph_positions) + 1, len |-> Len(shaped),
             total_advance |-> total, wrapped |-> wrap,
             before |-> t.cursor, placed |-> t1.cursor, after |-> t2.cursor,
             line_spacing |-> line_spacing(font, point_size),
             space_advance |-> space_advance(font, point_size)])]

RECURSIVE PlaceWords(_, _, _, _, _)
PlaceWords(t, ws, font, point_size, pw) ==
    IF ws = <<>> THEN t
    ELSE PlaceWords(PlaceWord(t, Head(ws), font, point_size, pw),
                    Tail(ws), font, point_size, pw)

add_text(t, font, point_size, string, pw) ==
    PlaceWords(t, split_whitespace(string), font, point_size, pw)

\* -------------------------------------------------------------- GlyphStore
\* Option<u16>::None.
None == -1

NoStore == [absent |-> TRUE]

\* Vec::sort, as an insertion sort.
RECURSIVE Insert(_, _)
Insert(sorted, v) ==
    IF sorted = <<>> THEN <<v>>
    ELSE IF v <= Head(sorted) THEN <<v>> \o sorted
         ELSE <<Head(sorted)>> \o Insert(Tail(sorted), v)

RECURSIVE Sort(_)
Sort(seq) == IF seq = <<>> THEN <<>> ELSE Insert(Sort(Tail(seq)), Head(seq))

\* Vec::dedup: drops every element equal to the one before it.
RECURSIVE Dedup(_)
Dedup(seq) ==
    IF Len(seq) <= 1 THEN seq
    ELSE IF seq[1] = seq[2] THEN Dedup(Tail(seq))
         ELSE <<seq[1]>> \o Dedup(Tail(seq))

\* The outline bounds of a glyph in font units (the font's glyf data).
glyph_bounds(font, glyph_id) ==
    IF font.name = "A"
    THEN [left |-> 50, bottom |-> IF glyph_id = 3 THEN -200 ELSE 0,
          right |-> 550, top |-> 700]
    ELSE [left |-> 100, bottom |-> -400, right |-> 1100,
          top |-> IF glyph_id = 2 THEN 1400 ELSE 1000]

NewOutlineBuilder == [calls |-> <<>>, descriptors |-> <<>>, finalized |-> FALSE]

\* OutlineBuilder::add_glyph(font, glyph_id): a font error for a glyph the
\* font cannot decode; otherwise the glyph's descriptor is appended and its
\* position, the next dense index, is returned.
add_glyph(builder, font, glyph_id, env) ==
    LET called == [builder EXCEPT !.calls = Append(@, glyph_id)]
    IN IF glyph_id \in env.bad_glyphs
       THEN [ok |-> FALSE, index |-> None, builder |-> called]
       ELSE [ok |-> TRUE, index |-> Len(builder.descriptors),
             builder |-> [called EXCEPT !.descriptors = Append(@,
                            [units_per_em |-> font.units_per_em,
                             bounds |-> glyph_bounds(font, glyph_id)])]]

\* OutlineBuilder::create_buffers(): the GPU buffers, or a backend error.
create_buffers(builder, env) ==
    IF env.gl_fails
    THEN [ok |-> FALSE, builder |-> [builder EXCEPT !.finalized = TRUE]]
    ELSE [ok |-> TRUE, outlines |-> builder.descriptors,
          builder |-> [builder EXCEPT !.finalized = TRUE]]

\* vec![u16::MAX; n], kept sparse: len is n, and set holds the entries
\* written since; every other entry below len is u16::MAX.
FilledWithMax(n) == [len |-> n, set |-> <<>>]

ArrayGet(a, i) == IF i \in DOMAIN a.set THEN a.set[i] ELSE U16_MAX

ArraySet(a, i, v) == [a EXCEPT !.set = (i :> v) @@ a.set]

\* `id + 1` on u16: with overflow checks (a debug build) 65535 + 1 panics,
\* without them (a release build) it wraps to 0.
last_glyph_id(ids) ==
    IF ids = <<>> THEN 0 ELSE (ids[Len(ids)] + 1) % (U16_MAX + 1)

RecordIndex_AlwaysFirst(a, glyph_id, index) == ArraySet(a, glyph_id, 0)

\* The write glyph_id_to_glyph_index[glyph_id as usize] = glyph_index.
RecordIndex(a, glyph_id, index) == ArraySet(a, glyph_id, index)

\* The loop of from_glyph_ids over the sorted, deduplicated identifiers.
RECURSIVE AddGlyphs(_, _, _, _)
AddGlyphs(st, ids, font, env) ==
    IF ids = <<>> THEN [st EXCEPT !.tag = "Added"]
    ELSE LET r == add_glyph(st.builder, font, Head(ids), env)
         IN IF ~r.ok
            THEN [st EXCEPT !.tag = "FontError", !.builder = r.builder]
            ELSE IF Head(ids) >= st.glyph_id_to_glyph_index.len
            THEN [st EXCEPT !.tag = "Panic", !.builder = r.builder]
            ELSE AddGlyphs(
                   [st EXCEPT !.builder = r.builder,
                      !.glyph_id_to_glyph_index = RecordIndex(@, Head(ids), r.index),
                      !.all_glyph_indices = Append(@, r.index)],
                   Tail(ids), font, env)

FinishStore_KeepsPartialStore(st, env) ==
    LET bufs == create_buffers(st.builder, env)
    IN [tag |-> IF bufs.ok THEN "Ok" ELSE "GlError",
        store |-> [outlines |-> st.builder.descriptors,
                   glyph_id_to_glyph_index |-> st.glyph_id_to_glyph_index,
                   all_glyph_indices |-> Dedup(Sort(st.all_glyph_indices))],
        builder |-> bufs.builder]

\* The end of from_glyph_ids, after the loop: create the buffers, sort and
\* deduplicate all_glyph_indices, return the store.
FinishStore(st, env) ==
    LET bufs == create_buffers(st.builder, env)
    IN IF ~bufs.ok
       THEN [tag |-> "GlError", store |-> NoStore, builder |-> bufs.builder]
       ELSE [tag |-> "Ok",
             store |-> [outlines |-> bufs.outlines,
                        glyph_id_to_glyph_index |-> st.glyph_id_to_glyph_index,
                        all_glyph_indices |-> Dedup(Sort(st.all_glyph_indices))],
             builder |-> bufs.builder]

\* GlyphStore::from_glyph_ids.  The result: tag is Ok, FontError, GlError or
\* Panic; store is the GlyphStore returned (NoStore unless Ok); builder is
\* what happened to the OutlineBuilder.
from_glyph_ids(glyph_ids, font, env) ==
    LET ids == Dedup(Sort(glyph_ids))
        overflow == ids # <<>> /\ ids[Len(ids)] = U16_MAX
        st0 == [tag |-> "Loop", builder |-> NewOutlineBuilder,
                glyph_id_to_glyph_index |-> FilledWithMax(last_glyph_id(ids)),
                all_glyph_indices |-> <<>>]
        st1 == AddGlyphs(st0, ids, font, env)
    IN IF overflow /\ env.overflow_checks
       THEN [tag |-> "Panic", store |-> NoStore, builder |-> NewOutlineBuilder]
       ELSE IF st1.tag # "Added"
       THEN [tag |-> st1.tag, store |-> NoStore, builder |-> st1.builder]
       ELSE FinishStore(st1, env)

\* Typesetter::create_glyph_store
create_glyph_store(positions, font, env) ==
    from_glyph_ids([i \in 1..Len(positions) |-> positions[i].glyph_id], font, env)

\* GlyphStore::from_codepoints: the font's mapping of the codepoints, or a
\* font error; then from_glyph_ids on the mapped identifiers.
from_codepoints(codepoints, font, env) ==
    IF env.mapping_fails
    THEN [tag |-> "FontError", store |-> NoStore, builder |-> NewOutlineBuilder]
    ELSE from_glyph_ids([i \in 1..Len(codepoints) |-> glyph_for(font, codepoints[i])],
                        font, env)

\* GlyphStore::glyph_index
glyph_index(store, glyph_id) ==
    LET a == store.glyph_id_to_glyph_index
    IN IF glyph_id >= a.len THEN None
       ELSE IF ArrayGet(a, glyph_id) = U16_MAX THEN None
            ELSE ArrayGet(a, glyph_id)

\* ------------------------------------------------ positioned_glyphs_in_rect
\* Exact rationals n / d with d > 0: f32::floor, f32::ceil, and f32::round
\* (half away from zero).
Floor(n, d) == n \div d

Ceil(n, d) == -((-n) \div d)

Round(n, d) ==
    IF n >= 0 THEN (2 * n + d) \div (2 * d) ELSE -((2 * (-n) + d) \div (2 * d))

\* f32::fract: the fractional part, with the sign of the number.
Fract(v) == IF v >= 0 THEN v % FP ELSE -((-v) % FP)

Intersects_XOnly(a, b) == a.x < b.x + b.w /\ b.x < a.x + a.w

\* Rect::intersects (euclid)
Intersects(a, b) ==
    /\ a.x < b.x + b.w
    /\ b.x < a.x + a.w
    /\ a.y < b.y + b.h
    /\ b.y < a.y + a.h

\* outlines.glyph_subpixel_bounds(glyph_index, point_size) then scale(scale)
\* then round_out(): floor of left and bottom, ceil of right and top, in
\* whole pixels.  An edge is units * point_size / units_per_em * scale.
glyph_pixel_bounds(store, index, point_size, scale) ==
    LET d == store.outlines[index + 1]
        den == d.units_per_em * FP
    IN [left |-> Floor(d.bounds.left * point_size * scale, den),
        bottom |-> Floor(d.bounds.bottom * point_size * scale, den),
        right |-> Ceil(d.bounds.right * point_size * scale, den),
        top |-> Ceil(d.bounds.top * point_size * scale, den)]

\* glyph_subpixel_bounds.size() after scale(scale): (right - left, top - bottom).
glyph_subpixel_size(store, index, point_size, scale) ==
    LET d == store.outlines[index + 1]
    IN [w |-> ((d.bounds.right - d.bounds.left) * point_size * scale) \div d.units_per_em,
        h |-> ((d.bounds.top - d.bounds.bottom) * point_size * scale) \div d.units_per_em]

snapped_x_Truncates(x, scale, subpixel_granularity) ==
    Floor(x * scale, FP * subpixel_granularity) * subpixel_granularity

\* (glyph_position.x * scale * subpixel_inv_granularity).round() *
\* subpixel_granularity, with subpixel_inv_granularity = 1 / subpixel_granularity.
snapped_x(x, scale, subpixel_granularity) ==
    Round(x * scale, FP * subpixel_granularity) * subpixel_granularity

\* (glyph_position.y * scale).round() - glyph_pixel_bounds.top as f32
snapped_y(y, scale, top) == Round(y * scale, FP * FP) * FP - top * FP

glyph_snapped_rect(store, index, gp, point_size, scale, subpixel_granularity) ==
    LET size == glyph_subpixel_size(store, index, point_size, scale)
        top == glyph_pixel_bounds(store, index, point_size, scale).top
    IN [x |-> snapped_x(gp.x, scale, subpixel_granularity),
        y |-> snapped_y(gp.y, scale, top),
        w |-> size.w, h |-> size.h]

subpixel_x(origin_x) ==
    IF origin_x >= 0 THEN Fract(origin_x) ELSE FP + Fract(origin_x)

\* The loop of positioned_glyphs_in_rect from position i on; acc holds the
\* glyphs pushed so far and the positions they came from.
RECURSIVE QueryFrom(_, _, _, _, _, _, _, _)
QueryFrom(positions, i, acc, bounding_rect, store, point_size, scale, gran) ==
    IF i > Len(positions) THEN acc
    ELSE LET gp == positions[i]
             index == glyph_index(store, gp.glyph_id)
             rect == glyph_snapped_rect(store, index, gp, point_size, scale, gran)
             \* None: `continue`; the debug_assert on the snapped y; the cull
             next == IF index = None THEN acc
                     ELSE IF rect.y % FP # 0
                     THEN [acc EXCEPT !.panicked = TRUE]
                     ELSE IF ~Intersects(rect, bounding_rect) THEN acc
                     ELSE [acc EXCEPT
                             !.glyphs = Append(@, [bounds |-> rect,
                                                   subpixel_x |-> subpixel_x(rect.x),
                                                   glyph_index |-> index]),
                             !.from = Append(@, i)]
         IN IF next.panicked THEN next
            ELSE QueryFrom(positions, i + 1, next, bounding_rect, store,
                           point_size, scale, gran)

positioned_glyphs_in_rect(positions, bounding_rect, store, point_size, scale, gran) ==
    QueryFrom(positions, 1, [glyphs |-> <<>>, from |-> <<>>, panicked |-> FALSE],
              bounding_rect, store, point_size, scale, gran)

Typesetter == [glyph_positions |-> glyph_positions, cursor |-> cursor, words |-> words]

\* Typesetter::new
Init ==
    /\ page_width \in PageWidths
    /\ \E f \in Fonts, ps \in PointSizes :
          cursor = [x |-> 0, y |-> Px(f.ascender, ps, f)]
    /\ glyph_positions = <<>>
    /\ words = <<>>
    /\ last_call = [n |-> 0]
    /\ glyph_store = [tag |-> "None", store |-> NoStore, builder |-> NewOutlineBuilder]
    /\ store_call = [n |-> 0]
    /\ positioned_glyphs = <<>>
    /\ last_query = [n |-> 0]

AddText(fonts, sizes, texts, cap) ==
    \E f \in fonts, ps \in sizes, s \in texts :
       LET t == add_text(Typesetter, f, ps, s, page_width)
       IN /\ Len(t.glyph_positions) <= cap
          /\ glyph_positions' = t.glyph_positions
          /\ cursor' = t.cursor
          /\ words' = t.words
          /\ last_call' = [n |-> 1, font |-> f, point_size |-> ps, string |-> s,
                           cursor |-> cursor, first_glyph |-> Len(glyph_positions) + 1,
                           first_word |-> Len(words) + 1]
          /\ UNCHANGED <<page_width, glyph_store, store_call, positioned_glyphs, last_query>>

\* The conditions a construction runs under: the glyphs the font cannot
\* decode, whether the font's codepoint mapping fails, whether the backend
\* fails to create the buffers, and whether the build checks overflow.
Envs ==
    [bad_glyphs : {{}, {2}, {7, U16_MAX}}, mapping_fails : {FALSE},
     gl_fails : BOOLEAN, overflow_checks : BOOLEAN]

CodepointEnvs ==
    [bad_glyphs : {{}, {2}}, mapping_fails : BOOLEAN,
     gl_fails : {FALSE}, overflow_checks : BOOLEAN]

\* The codepoints given to from_codepoints, sorted.
CodepointLists == { <<"A", "B">>, <<" ", "A", "Z">>, <<>> }

CreateGlyphStore(fonts, envs) ==
    \E f \in fonts, env \in envs :
       /\ glyph_store' = create_glyph_store(glyph_positions, f, env)
       /\ store_call' = [n |-> 1, op |-> "create_glyph_store",
                         glyph_ids |-> [i \in 1..Len(glyph_positions) |->
                                           glyph_positions[i].glyph_id],
                         font |-> f, env |-> env]
       /\ UNCHANGED <<glyph_positions, page_width, cursor, words, last_call,
                      positioned_glyphs, last_query>>

FromCodepoints(fonts, envs) ==
    \E f \in fonts, env \in envs, cps \in CodepointLists :
       /\ glyph_store' = from_codepoints(cps, f, env)
       /\ store_call' = [n |-> 1, op |-> "from_codepoints",
                         glyph_ids |-> [i \in 1..Len(cps) |-> glyph_for(f, cps[i])],
                         font |-> f, env |-> env]
       /\ UNCHANGED <<glyph_positions, page_width, cursor, words, last_call,
                      positioned_glyphs, last_query>>

\* Query rectangles [x, y, w, h]: one around every glyph, one at the top left
\* of the page, one far from every glyph.
Rects == { [x |-> -100 * FP, y |-> -100 * FP, w |-> 300 * FP, h |-> 300 * FP],
           [x |-> 0, y |-> 0, w |-> 5 * FP, h |-> 5 * FP],
           [x |-> 1000 * FP, y |-> 1000 * FP, w |-> 10 * FP, h |-> 10 * FP] }

\* scale: 1, 1/2 and -1.
Scales == {FP, FP \div 2, -FP}

\* subpixel_granularity: 1/4, 1 and 4.
Granularities == {FP \div 4, FP, 4 * FP}

PositionedGlyphsInRect(sizes) ==
    \E r \in Rects, ps \in sizes, sc \in Scales, g \in Granularities :
       /\ glyph_store.tag = "Ok"
       /\ LET res == positioned_glyphs_in_rect(glyph_positions, r, glyph_store.store,
                                               ps, sc, g)
          IN /\ positioned_glyphs' = res.glyphs
             /\ last_query' = [n |-> 1, bounding_rect |-> r, point_size |-> ps,
                               scale |-> sc, subpixel_granularity |-> g,
                               from |-> res.from, panicked |-> res.panicked]
       /\ UNCHANGED <<glyph_positions, page_width, cursor, words, last_call,
                      glyph_store, store_call>>

NextLayout == AddText(Fonts, PointSizes, Texts, MaxGlyphs)

SpecLayout == Init /\ [][NextLayout]_vars

NextStore ==
    \/ AddText(Fonts, {10}, Texts, MaxGlyphs)
    \/ CreateGlyphStore(Fonts, Envs)
    \/ FromCodepoints(Fonts, CodepointEnvs)

\* The store does not read the positions: one page and one first baseline.
InitStore ==
    /\ Init
    /\ page_width = 100 * FP
    /\ cursor.y = Px(FontA.ascender, 10, FontA)

SpecStore == InitStore /\ [][NextStore]_vars

NoFailure == [bad_glyphs |-> {}, mapping_fails |-> FALSE, gl_fails |-> FALSE,
              overflow_checks |-> FALSE]

Next ==
    \/ AddText(Fonts, {10}, Texts \ {<<" ">>}, MaxQueryGlyphs)
    \/ CreateGlyphStore(Fonts, {NoFailure})
    \/ PositionedGlyphsInRect({10})

InitQuery ==
    /\ Init
    /\ page_width = 20 * FP
    /\ cursor.y = Px(FontA.ascender, 10, FontA)

Spec == InitQuery /\ [][Next]_vars

\* =================================================================== claims
\* The glyphs of word w of the history, as indices into glyph_positions.
GlyphsOf(w) == w.first .. (w.first + w.len - 1)

\* ------------------------------------------------------------------ C1
\* C1: every glyph lies in a word; the glyphs of a word whose total_advance
\* is at most page_width have 0 <= x <= page_width; a word whose
\* total_advance is greater than page_width is wrapped, starts at x = 0 and
\* has all its glyphs on one line (one y), none with a negative x.
C1_GlyphsWithinPage ==
    /\ \A k \in 1..Len(glyph_positions) :
          \E i \in 1..Len(words) : k \in GlyphsOf(words[i])
    /\ \A i \in 1..Len(words) :
          LET w == words[i]
          IN /\ \A k \in GlyphsOf(w) : glyph_positions[k].x >= 0
             /\ w.total_advance <= page_width =>
                   \A k \in GlyphsOf(w) : glyph_positions[k].x <= page_width
             /\ w.total_advance > page_width =>
                   /\ w.wrapped
                   /\ glyph_positions[w.first].x = 0
                   /\ \A k \in GlyphsOf(w) :
                         glyph_positions[k].y = glyph_positions[w.first].y

\* A page holding a word wider than the page, wrapped, with a glyph beyond
\* the page width, after another word.
C1_Witness ==
    \E i \in 2..Len(words) :
       /\ words[i].total_advance > page_width
       /\ words[i].wrapped
       /\ \E k \in GlyphsOf(words[i]) : glyph_positions[k].x > page_width

\* ------------------------------------------------------------------ C2
\* The line spacing of a call, from the font's metrics.
LineSpacingOf(call) ==
    ((call.font.ascender - call.font.descender + call.font.line_gap)
        * call.point_size * FP) \div call.font.units_per_em

\* C2: a step changes cursor.y by line_spacing of the call for each word the
\* call wrapped and by nothing else, so cursor.y never decreases; and the y
\* of a glyph is at least the y of every glyph appended before it.
C2_CursorYMonotone ==
    [][ LET wrapped == {i \in (Len(words) + 1)..Len(words') : words'[i].wrapped}
        IN /\ cursor'.y >= cursor.y
           /\ wrapped = {} => cursor'.y = cursor.y
           /\ wrapped # {} =>
                 cursor'.y = cursor.y + Cardinality(wrapped) * LineSpacingOf(last_call')
           /\ \A i \in 1..Len(words') :
                 words'[i].after.y = words'[i].before.y +
                     (IF words'[i].wrapped THEN words'[i].line_spacing ELSE 0)
           /\ \A j \in 1..Len(glyph_positions'), k \in 1..Len(glyph_positions') :
                 j < k => glyph_positions'[j].y <= glyph_positions'[k].y ]_vars

\* Two words wrapped by calls with different line spacings.
C2_Witness ==
    \E i \in 1..Len(words), j \in 1..Len(words) :
       /\ words[i].wrapped /\ words[j].wrapped
       /\ words[i].line_spacing # words[j].line_spacing

\* ------------------------------------------------------------------ C3
\* C3 as stated, with its exception granted to every page that holds a word
\* wider than the page: on any other page, between words and after add_text
\* returns, cursor.x is in [0, page_width].
C3_CursorXWithinPage ==
    (\A i \in 1..Len(words) : words[i].total_advance <= page_width) =>
        /\ 0 <= cursor.x /\ cursor.x <= page_width
        /\ \A i \in 1..Len(words) : words[i].after.x <= page_width

\* C3 amended: cursor.x is never negative; a word that fits the page ends
\* within it, and the space added after it leaves cursor.x at most
\* page_width + space_advance; a word wider than the page is wrapped to
\* x = 0 and leaves cursor.x = total_advance + space_advance, which stays
\* beyond the page until the next wrap.
C3_CursorXAfterWord ==
    /\ cursor.x >= 0
    /\ words = <<>> => cursor.x = 0
    /\ words # <<>> => cursor.x = words[Len(words)].after.x
    /\ \A i \in 1..Len(words) :
          LET w == words[i]
          IN /\ w.after.x = w.placed.x + w.space_advance
             /\ w.total_advance <= page_width =>
                   /\ w.placed.x <= page_width
                   /\ w.after.x <= page_width + w.space_advance
             /\ w.total_advance > page_width =>
                   w.after.x = w.total_advance + w.space_advance

\* A word that fits the page was wrapped and left cursor.x beyond it.
C3_Witness ==
    \E i \in 1..Len(words) :
       /\ words[i].total_advance <= page_width
       /\ words[i].wrapped
       /\ words[i].after.x > page_width

\* ------------------------------------------------------------------ C9
\* The advance, in pixels, of the glyphs of the words before word n of ws and
\* of the first m glyphs of word n, plus one space per earlier word.
RECURSIVE AdvanceBefore(_, _, _, _, _)
AdvanceBefore(ws, n, m, font, point_size) ==
    IF n = 1 /\ m = 0 THEN 0
    ELSE IF m = 0
    THEN AdvanceBefore(ws, n - 1, Len(ws[n - 1]), font, point_size)
            + (advance_width(font, glyph_for(font, " ")) * point_size * FP)
                 \div font.units_per_em
    ELSE AdvanceBefore(ws, n, m - 1, font, point_size)
            + (advance_width(font, glyph_for(font, ws[n][m])) * point_size * FP)
                 \div font.units_per_em

\* The number of glyphs of the first n words of ws.
RECURSIVE GlyphsBefore(_, _)
GlyphsBefore(ws, n) == IF n = 0 THEN 0 ELSE Len(ws[n]) + GlyphsBefore(ws, n - 1)

\* The first glyph of word n of the last call, as an index into glyph_positions.
FirstGlyphOf(ws, n) == last_call.first_glyph + GlyphsBefore(ws, n - 1)

ExampleText == <<"A", "B", " ", "C", "D">>

\* The call of the worked example, on a fresh page: FontA at 10 points.
ExampleCall ==
    /\ last_call.n = 1
    /\ last_call.first_glyph = 1
    /\ last_call.font = FontA /\ last_call.point_size = 10
    /\ last_call.string = ExampleText
    /\ last_call.cursor = [x |-> 0, y |-> 8 * FP]

\* C9: in a call that wrapped no word, glyph m of word n is at the cursor.x
\* of the start of the call plus the advances of the earlier glyphs of the
\* call plus one space_advance per earlier word, and the call leaves cursor.x
\* one space_advance after the last word.  The example: "AB CD" at 6 px per
\* glyph and per space gives x = 0, 6, 18, 24 at y = 8 and cursor.x = 36 on a
\* 100 px page, and puts "CD" at x = 0 and 6 with y = 20 on a 20 px page.
C9_GlyphAtCursorBeforeAdvance ==
    /\ last_call.n = 1 =>
          LET ws == split_whitespace(last_call.string)
              f == last_call.font
              ps == last_call.point_size
              nowrap == \A i \in last_call.first_word..Len(words) : ~words[i].wrapped
          IN nowrap =>
                /\ \A n \in 1..Len(ws) : \A m \in 1..Len(ws[n]) :
                      glyph_positions[FirstGlyphOf(ws, n) + m - 1].x =
                         last_call.cursor.x + AdvanceBefore(ws, n, m - 1, f, ps)
                /\ Len(ws) > 0 =>
                      cursor.x = last_call.cursor.x
                                   + AdvanceBefore(ws, Len(ws), Len(ws[Len(ws)]), f, ps)
                                   + space_advance(f, ps)
    /\ ExampleCall /\ page_width = 100 * FP =>
          /\ [k \in 1..4 |-> glyph_positions[k].x] = <<0, 6 * FP, 18 * FP, 24 * FP>>
          /\ \A k \in 1..4 : glyph_positions[k].y = 8 * FP
          /\ cursor.x = 36 * FP
    /\ ExampleCall /\ page_width = 20 * FP =>
          /\ [k \in 1..4 |-> glyph_positions[k].x] = <<0, 6 * FP, 0, 6 * FP>>
          /\ [k \in 1..4 |-> glyph_positions[k].y] = <<8 * FP, 8 * FP, 20 * FP, 20 * FP>>

\* The example on the 20 px page, where "CD" wraps.
C9_Witness == ExampleCall /\ page_width = 20 * FP

\* A later call of two words that wrapped none, from a cursor that is not at
\* the left edge.
C9_NoWrapFromMidLine ==
    /\ last_call.n = 1 /\ last_call.cursor.x > 0
    /\ Len(split_whitespace(last_call.string)) = 2
    /\ \A i \in last_call.first_word..Len(words) : ~words[i].wrapped

\* ------------------------------------------------------------------ C4
\* The identifiers of the last construction, as a set.
StoreIds == {store_call.glyph_ids[i] : i \in 1..Len(store_call.glyph_ids)}

\* The largest element of a non-empty set of numbers.
MaxOf(S) == CHOOSE m \in S : \A v \in S : v <= m

\* The last construction met no font error and no backend error.
NothingFails ==
    /\ store_call.env.bad_glyphs \cap StoreIds = {}
    /\ ~store_call.env.mapping_fails
    /\ ~store_call.env.gl_fails

\* C4: create_glyph_store on a page with at least one glyph, with a font and
\* a backend that do not fail, returns a store whose lookup array has length
\* max(identifier) + 1 and whose glyph_index is present for every identifier
\* of the page, 65535 included.
C4_RoundTrip ==
    (/\ store_call.n = 1
     /\ store_call.op = "create_glyph_store"
     /\ StoreIds # {}
     /\ NothingFails) =>
        /\ glyph_store.tag = "Ok"
        /\ glyph_store.store.glyph_id_to_glyph_index.len = MaxOf(StoreIds) + 1
        /\ \A id \in StoreIds : glyph_index(glyph_store.store, id) # None

\* The round trip for pages that do not hold the identifier 65535.
C4_RoundTripBelowMax ==
    store_call.n = 1 /\ U16_MAX \notin StoreIds => C4_RoundTrip

\* ------------------------------------------------------------------ C5
\* Identifiers glyph_index is asked about: those the fonts map to, their
\* neighbours, and the ends of u16.
ProbeIds == 0..12 \cup {U16_MAX - 1, U16_MAX}

\* The dense indices glyph_index returns for the identifiers of the list.
IndexImage == {glyph_index(glyph_store.store, id) : id \in StoreIds}

\* C5: in a store that was built, glyph_index is present for every identifier
\* of the list and maps distinct identifiers to distinct dense indices,
\* which are 0 .. n-1 in ascending-identifier order; identifiers not in the
\* list map to None; all_glyph_indices is the strictly increasing list of
\* exactly the indices glyph_index returns.
C5_IndexInjective ==
    glyph_store.tag = "Ok" =>
        LET st == glyph_store.store
            all == st.all_glyph_indices
        IN /\ \A a \in StoreIds : glyph_index(st, a) # None
           /\ \A a \in StoreIds, b \in StoreIds :
                 a < b => glyph_index(st, a) < glyph_index(st, b)
           /\ IndexImage = 0..(Cardinality(StoreIds) - 1)
           /\ \A id \in ProbeIds \ StoreIds : glyph_index(st, id) = None
           /\ \A i \in 1..(Len(all) - 1) : all[i] < all[i + 1]
           /\ {all[i] : i \in 1..Len(all)} = IndexImage

\* A store built from a list that repeats an identifier and is not sorted.
C5_Witness ==
    /\ glyph_store.tag = "Ok"
    /\ Cardinality(StoreIds) >= 2
    /\ Cardinality(StoreIds) < Len(store_call.glyph_ids)
    /\ \E i \in 1..(Len(store_call.glyph_ids) - 1) :
          store_call.glyph_ids[i] > store_call.glyph_ids[i + 1]

\* ------------------------------------------------------------------ C8
\* The identifiers below v, in a set.
Below(S, v) == {u \in S : u < v}

\* The sequence seq calls the identifiers of S in ascending order, with no
\* repeat and none left out.
AscendingOver(seq, S) ==
    /\ Len(seq) = Cardinality(S)
    /\ \A i \in 1..Len(seq) : seq[i] \in S /\ Cardinality(Below(S, seq[i])) = i - 1

\* C8: the construction is all or nothing.  A failed add_glyph is the last
\* call made to the builder: the earlier calls are the smaller identifiers
\* of the list, all succeeded, the batch is not finalized, and the result is
\* FontError with no store.  GlError with no store is the result when every
\* identifier was added and the finalization failed.  A store is returned
\* only when every identifier was added and the finalization succeeded.  A
\* font whose mapping fails in from_codepoints gives FontError before any
\* add_glyph.
C8_AllOrNothing ==
    store_call.n = 1 =>
        LET calls == glyph_store.builder.calls
            bad == store_call.env.bad_glyphs
            failed == {i \in 1..Len(calls) : calls[i] \in bad}
        IN /\ failed # {} =>
                 /\ failed = {Len(calls)}
                 /\ glyph_store.tag = "FontError"
                 /\ AscendingOver(calls, Below(StoreIds, calls[Len(calls)])
                                           \cup {calls[Len(calls)]})
                 /\ ~glyph_store.builder.finalized
           /\ glyph_store.tag = "FontError" =>
                 /\ glyph_store.store = NoStore
                 /\ ~glyph_store.builder.finalized
                 /\ failed # {} \/ (store_call.env.mapping_fails /\ calls = <<>>)
           /\ glyph_store.tag = "GlError" =>
                 /\ glyph_store.store = NoStore
                 /\ failed = {} /\ AscendingOver(calls, StoreIds)
                 /\ store_call.env.gl_fails
           /\ glyph_store.tag = "Ok" =>
                 /\ failed = {} /\ AscendingOver(calls, StoreIds)
                 /\ ~store_call.env.gl_fails
                 /\ glyph_store.builder.finalized
                 /\ Len(glyph_store.store.outlines) = Cardinality(StoreIds)
           /\ glyph_store.store # NoStore => glyph_store.tag = "Ok"

\* A construction stopped by a font error after one glyph was added and
\* before two others were tried.
C8_Witness ==
    /\ store_call.n = 1
    /\ glyph_store.tag = "FontError"
    /\ Len(glyph_store.builder.calls) = 2
    /\ Cardinality(StoreIds) = 4

\* ------------------------------------------------------------------ C6
\* Two rectangles [x, y, w, h] share a point of their interiors.
Overlap(a, b) ==
    /\ a.x < b.x + b.w /\ b.x < a.x + a.w
    /\ a.y < b.y + b.h /\ b.y < a.y + a.h

\* The snapped rectangle of position i of the page for store st and query q.
SnappedRectOf(i, st, q) ==
    glyph_snapped_rect(st, glyph_index(st, glyph_positions[i].glyph_id),
                       glyph_positions[i], q.point_size, q.scale,
                       q.subpixel_granularity)

\* The positions the query has to return: those whose identifier is present
\* in the store and whose snapped rectangle overlaps the query rectangle.
Wanted(st, q) ==
    {i \in 1..Len(glyph_positions) :
        /\ glyph_index(st, glyph_positions[i].glyph_id) # None
        /\ Overlap(SnappedRectOf(i, st, q), q.bounding_rect)}

\* Glyphs is the answer to query q on store st: one glyph per wanted
\* position, in the order of the page, with its snapped rectangle and its
\* dense index.
IsAnswer(glyphs, q, st) ==
    /\ ~q.panicked
    /\ Len(glyphs) = Cardinality(Wanted(st, q))
    /\ Len(q.from) = Len(glyphs)
    /\ \A j \in 1..Len(glyphs) :
          /\ q.from[j] \in Wanted(st, q)
          /\ j > 1 => q.from[j - 1] < q.from[j]
          /\ glyphs[j].bounds = SnappedRectOf(q.from[j], st, q)
          /\ glyphs[j].glyph_index =
                glyph_index(st, glyph_positions[q.from[j]].glyph_id)
    /\ Wanted(st, q) = {} => glyphs = <<>>

\* C6: every query, on whatever page and store the calls so far have left,
\* ends without failure and returns, in page order, one glyph for exactly the
\* positions whose identifier is present in the store and whose snapped
\* rectangle intersects bounding_rect; positions the store does not cover
\* are skipped, and the result is empty when nothing intersects.
C6_QueryIsBruteForce ==
    [][ <<positioned_glyphs, last_query>>' # <<positioned_glyphs, last_query>> =>
           IsAnswer(positioned_glyphs', last_query', glyph_store.store) ]_vars

\* Just after a query on a store older than the page: a position was
\* skipped as absent, one was culled, one was returned.
C6_Witness ==
    /\ last_query.n = 1 /\ glyph_store.tag = "Ok"
    /\ IsAnswer(positioned_glyphs, last_query, glyph_store.store)
    /\ positioned_glyphs # <<>>
    /\ \E i \in 1..Len(glyph_positions) :
          glyph_index(glyph_store.store, glyph_positions[i].glyph_id) = None
    /\ \E i \in 1..Len(glyph_positions) :
          /\ glyph_index(glyph_store.store, glyph_positions[i].glyph_id) # None
          /\ i \notin Wanted(glyph_store.store, last_query)

\* ------------------------------------------------------------------ C7
\* C7: every glyph returned has 0 <= subpixel_x < 1.
C7_SubpixelInUnitInterval ==
    \A j \in 1..Len(positioned_glyphs) :
       0 <= positioned_glyphs[j].subpixel_x /\ positioned_glyphs[j].subpixel_x < FP

\* subpixel_x is in [0, 1], and is 1 only at a snapped origin that is a
\* negative whole number.
C7_SubpixelExceptNegativeWhole ==
    \A j \in 1..Len(positioned_glyphs) :
       LET g == positioned_glyphs[j]
       IN /\ 0 <= g.subpixel_x /\ g.subpixel_x <= FP
          /\ g.subpixel_x = FP => g.bounds.x < 0 /\ g.bounds.x % FP = 0
          /\ (g.bounds.x - g.subpixel_x) % FP = 0

\* A glyph returned at a negative snapped origin with a fractional part.
C7_NegativeFractionalReached ==
    \E j \in 1..Len(positioned_glyphs) :
       /\ positioned_glyphs[j].bounds.x < 0
       /\ positioned_glyphs[j].bounds.x % FP # 0

\* ----------------------------------------------------------------- C10
\* |v|
Abs(v) == IF v >= 0 THEN v ELSE -v

\* v, a multiple of step, is a multiple of step nearest to n / FP.
NearestMultiple(v, step, n) ==
    /\ v % step = 0
    /\ 2 * Abs(v * FP - n) <= step * FP

====
